---- MODULE Spec2Model ----
(***************************************************************************)
(* Labor-cost calculation of the Master Scheduler application.             *)
(*                                                                         *)
(* Modelled from src/scheduler.py (parse_shift_hours,                      *)
(* calculate_labor_costs) and src/database.py (save_schedule,              *)
(* save_labor_cost, the schedules and labor_costs tables).                 *)
(*                                                                         *)
(* Four specifications.  Spec is the schedule tab: the user edits the      *)
(* grid, closes a day in the settings and presses the calculation button.  *)
(* TabsSpec adds the Save Schedule button and the actual-sales form of the *)
(* reports tab, for one fixed staff.  ParseSpec is parse_shift_hours on    *)
(* its own, applied to one shift text.  StoreSpec is the storage on its    *)
(* own: save_schedule and save_labor_cost called from several sessions.    *)
(*                                                                         *)
(* Numbers.  Hours are whole hours.  Money (Python floats / SQLite REAL)   *)
(* is modelled as exact rationals, stored as integers in units of          *)
(* 1/CostUnit dollar, so that the 1.5 overtime factor and the division of  *)
(* a weekly salary by 1..7 working days are exact.  IEEE-754 rounding of   *)
(* these operations is not modelled.                                       *)
(***************************************************************************)
EXTENDS Integers, Naturals, Sequences, FiniteSets, TLC

(***************************************************************************)
(* Bounds of the model                                                     *)
(***************************************************************************)
\* number of button presses ("Calculate Schedule Labor Cost") in one behaviour
MaxRuns == 2

\* number of connections that write to the database at once
NumSessions == 2

\* number of save calls of one connection in one behaviour
MaxCalls == 2

(***************************************************************************)
(* Program constants                                                       *)
(***************************************************************************)
\* dates = [start_date + timedelta(days=i) for i in range(7)]
NumDays == 7
\* weekly overtime threshold: "if weekly_hours > 40"
OvertimeThreshold == 40
\* weekly_hours > OvertimeThreshold exactly when some shift gets overtime
\* money unit: 1 dollar = CostUnit model units; 2 for the factor 1.5, 420 = lcm(1..7)
\* for pay_rate / working_days
CostUnit == 2 * 420

Days == 1..NumDays

\* Python None / SQL NULL in an integer-valued column
None == -1
\* a time token that float() rejects
NonNumeric == -2
\* a time token that float() reads as nan or inf
NotFinite == -3

(***************************************************************************)
(* Shift text.  A cell of the schedule grid is a string; the model keeps   *)
(* what the parser looks at: whether it is empty, whether it is the        *)
(* literal "CLOSED", and the tokens that shift_str.split('-') yields.      *)
(* A token is its numeric value (or NonNumeric) and its am/pm suffix.      *)
(***************************************************************************)
Tok(v, suf) == [v |-> v, suf |-> suf]

EmptyText == [lit |-> "", toks |-> << >>]

ClosedText == [lit |-> "CLOSED", toks |-> << >>]

\* "<a>-<b>"
Shift(a, b) == [lit |-> "text", toks |-> <<a, b>>]

\* a text without '-' (one token), e.g. "abc" or "9am"
NoDash(a) == [lit |-> "text", toks |-> <<a>>]

\* a text with two '-' (three tokens), e.g. "9-5-7"
TwoDash(a, b, c) == [lit |-> "text", toks |-> <<a, b, c>>]

\* result of parse_shift_hours: (formatted_start, formatted_end, hours);
\* a formatted time "HH:00:00" is kept as the integer HH
Parsed(s, e, h) == [start_time |-> s, end_time |-> e, hours |-> h]

ZeroShift == Parsed(None, None, 0)

\* parse_time without the special case of 12am
parse_time_TwelveAmIsNoon(tok) ==
    IF tok.v = NonNumeric THEN NonNumeric
    ELSE IF tok.v = NotFinite THEN NotFinite
    ELSE IF tok.suf = "am" THEN tok.v
    ELSE IF tok.suf = "pm" THEN (IF tok.v # 12 THEN tok.v + 12 ELSE 12)
    ELSE IF tok.v < 12 THEN (IF tok.v >= 5 THEN tok.v ELSE tok.v + 12)
    ELSE tok.v

\* parse_time: the hour of one token; NonNumeric when float() raises, NotFinite
\* when float() yields nan or inf (every comparison and sum keeps it so)
parse_time(tok) ==
    IF tok.v = NonNumeric THEN NonNumeric
    ELSE IF tok.v = NotFinite THEN NotFinite
    ELSE IF tok.suf = "am" THEN (IF tok.v # 12 THEN tok.v ELSE 0)
    ELSE IF tok.suf = "pm" THEN (IF tok.v # 12 THEN tok.v + 12 ELSE 12)
    ELSE IF tok.v < 12 THEN (IF tok.v >= 5 THEN tok.v ELSE tok.v + 12)
    ELSE tok.v

\* what a block of code does: it returns value, or raises exc
Returns(value) == [exc |-> "none", value |-> value]

Raises(exc) == [exc |-> exc, value |-> Parsed(None, None, None)]

\* the unpacking with "end_hour < start_hour" as the overnight test
Unpack_EqualIsSameDay(shift_str) ==
    IF Len(shift_str.toks) # 2 THEN Raises("ValueError")
    ELSE LET start_hour == parse_time(shift_str.toks[1])
             end_raw    == parse_time(shift_str.toks[2])
         IN  IF start_hour = NonNumeric \/ end_raw = NonNumeric
             THEN Raises("ValueError")
             ELSE IF start_hour = NotFinite \/ end_raw = NotFinite
             THEN Raises("ValueError")
             ELSE LET end_hour == IF end_raw < start_hour THEN end_raw + 24 ELSE end_raw
                  IN  Returns(Parsed(start_hour, end_hour % 24, end_hour - start_hour))

\* "start_time, end_time = shift_str.split('-')" and the lines after it
Unpack(shift_str) ==
    IF Len(shift_str.toks) # 2 THEN Raises("ValueError")         \* wrong number of values to unpack
    ELSE LET start_hour == parse_time(shift_str.toks[1])
             end_raw    == parse_time(shift_str.toks[2])
         IN  IF start_hour = NonNumeric \/ end_raw = NonNumeric
             THEN Raises("ValueError")                            \* float() of the token
             ELSE IF start_hour = NotFinite \/ end_raw = NotFinite
             THEN Raises("ValueError")                            \* int() of nan
             ELSE LET end_hour == IF end_raw <= start_hour THEN end_raw + 24 ELSE end_raw
                  IN  Returns(Parsed(start_hour, end_hour % 24, end_hour - start_hour))

\* the try block without its "if '-' in shift_str" test
TryBlock_UnpackAlways(shift_str) == Unpack(shift_str)

\* the try block of parse_shift_hours
TryBlock(shift_str) ==
    IF Len(shift_str.toks) < 2 THEN Returns(ZeroShift)            \* no '-' in text
    ELSE Unpack(shift_str)

\* the exceptions that "except Exception" catches
Caught_OnlyTypeError(exc) == exc = "TypeError"

Caught(exc) == exc \in {"ValueError", "TypeError", "OverflowError"}

\* one call of parse_shift_hours: what it returns, whether it showed
\* st.warning, and the exception that leaves it ("none" when it returns)
Outcome(result, warning, raised) == [result |-> result, warning |-> warning, raised |-> raised]

ParseCall(shift_str) ==
    IF shift_str.lit = "" \/ shift_str.lit = "CLOSED" THEN Outcome(ZeroShift, FALSE, "none")
    ELSE LET try == TryBlock(shift_str)
         IN  IF try.exc = "none" THEN Outcome(try.value, FALSE, "none")
             ELSE IF Caught(try.exc) THEN Outcome(ZeroShift, TRUE, "none")
             ELSE Outcome(try.value, FALSE, try.exc)

\* parse_shift_hours: the tuple it returns
parse_shift_hours(shift_str) == ParseCall(shift_str).result

(***************************************************************************)
(* Inputs of the model                                                     *)
(***************************************************************************)
\* rows of the schedule grid: one per employee of get_all_employees()
NumEmployees == 2

EmployeeIds == 1..NumEmployees

(***************************************************************************)
(* Storage: the schedules and labor_costs tables of src/database.py.       *)
(* A table is a set of rows; id is the AUTOINCREMENT primary key.  Neither *)
(* table has a UNIQUE constraint on its natural key.                       *)
(***************************************************************************)
NextId(table) == IF table = {} THEN 1
                 ELSE 1 + CHOOSE m \in {r.id : r \in table} :
                              \A r \in table : r.id <= m

\* cursor.fetchone() of "SELECT id FROM ... WHERE <key>": the matching row
\* with the least rowid
FetchOne(matching) == CHOOSE r \in matching : \A q \in matching : r.id <= q.id

\* variant: no look-up of an existing entry, every call inserts
save_schedule_AlwaysInsert(table, employee_id, date, start_time, end_time, hours, cost, overtime) ==
    table \cup
        {[id |-> NextId(table), employee_id |-> employee_id, date |-> date,
          start_time |-> start_time, end_time |-> end_time,
          hours |-> hours, cost |-> cost, overtime |-> overtime]}

\* save_schedule(employee_id, date, start_time, end_time, hours, cost, overtime)
save_schedule(table, employee_id, date, start_time, end_time, hours, cost, overtime) ==
    LET matching == {r \in table : r.employee_id = employee_id /\ r.date = date}
    IN  IF matching # {}
        THEN LET existing_entry == FetchOne(matching)
             IN  (table \ {existing_entry}) \cup
                 {[id |-> existing_entry.id, employee_id |-> employee_id, date |-> date,
                   start_time |-> start_time, end_time |-> end_time,
                   hours |-> hours, cost |-> cost, overtime |-> overtime]}
        ELSE table \cup
                 {[id |-> NextId(table), employee_id |-> employee_id, date |-> date,
                   start_time |-> start_time, end_time |-> end_time,
                   hours |-> hours, cost |-> cost, overtime |-> overtime]}

\* save_labor_cost(date, total_hours, regular_hours, overtime_hours, total_cost,
\*                 labor_goal_percentage, required_sales, actual_sales)
save_labor_cost(table, date, total_hours, regular_hours, overtime_hours, total_cost, labor_goal_percentage, required_sales, actual_sales) ==
    LET matching == {r \in table : r.date = date}
        id       == IF matching # {} THEN FetchOne(matching).id ELSE NextId(table)
        kept     == IF matching # {} THEN table \ {FetchOne(matching)} ELSE table
    IN  kept \cup
        {[id |-> id, date |-> date, total_hours |-> total_hours,
          regular_hours |-> regular_hours, overtime_hours |-> overtime_hours,
          total_cost |-> total_cost, labor_goal_percentage |-> labor_goal_percentage,
          required_sales |-> required_sales, actual_sales |-> actual_sales]}

(***************************************************************************)
(* calculate_labor_costs, per employee.                                    *)
(*                                                                         *)
(* Every worked shift yields one "step": the arguments of the              *)
(* db.save_schedule call (employee_id .. overtime), the local reg_hours    *)
(* and ot_hours, and what the statement block adds to daily_labor[date]    *)
(* (the add_ fields).                                                      *)
(***************************************************************************)
\* the text test without "if date_closed[i]: continue"
HasText_ClosedDayCounts(row, closed, i) ==
    /\ row[i].lit # ""
    /\ row[i].lit # "CLOSED"

\* "if date_closed[i]: continue" and "if shift_str and shift_str != 'CLOSED'"
HasText(row, closed, i) ==
    /\ ~closed[i]
    /\ row[i].lit # ""
    /\ row[i].lit # "CLOSED"

RECURSIVE WeeklyShifts(_, _, _)
\* first pass: weekly_shifts, the (date, hours) of the cells with hours > 0
WeeklyShifts(row, closed, i) ==
    IF i > NumDays THEN << >>
    ELSE (IF HasText(row, closed, i) /\ parse_shift_hours(row[i]).hours > 0
          THEN << [date |-> i, hours |-> parse_shift_hours(row[i]).hours] >>
          ELSE << >>) \o WeeklyShifts(row, closed, i + 1)

RECURSIVE TotalHours(_, _)
\* first pass: weekly_hours
TotalHours(shifts, i) ==
    IF i > Len(shifts) THEN 0 ELSE shifts[i].hours + TotalHours(shifts, i + 1)

\* first pass: start_time, end_time are left holding the result of the last
\* parse_shift_hours call of the pass
LastParsed(row, closed) ==
    LET parsed_days == {i \in Days : HasText(row, closed, i)}
        last        == CHOOSE i \in parsed_days : \A j \in parsed_days : j <= i
    IN  IF parsed_days = {} THEN ZeroShift ELSE parse_shift_hours(row[last])

RECURSIVE SortByDate_Descending(_, _)
\* variant: latest shift first
SortByDate_Descending(shifts, d) ==
    IF d > NumDays THEN << >>
    ELSE SortByDate_Descending(shifts, d + 1) \o SelectSeq(shifts, LAMBDA x : x.date = d)

RECURSIVE SortByDate(_, _)
\* weekly_shifts.sort(key=lambda x: x[0]) (stable)
SortByDate(shifts, d) ==
    IF d > NumDays THEN << >>
    ELSE SelectSeq(shifts, LAMBDA x : x.date = d) \o SortByDate(shifts, d + 1)

RegularCost(reg_hours, pay_rate) == reg_hours * pay_rate * CostUnit

\* variant: overtime paid at the base rate
OvertimeCost_BaseRate(ot_hours, pay_rate) == ot_hours * pay_rate * CostUnit

\* ot_hours * pay_rate * 1.5
OvertimeCost(ot_hours, pay_rate) == (ot_hours * pay_rate * CostUnit * 3) \div 2

Step(employee_id, date, times, hours, cost, overtime, reg_hours, ot_hours, add_total, add_regular, add_overtime, add_cost) ==
    [employee_id |-> employee_id, date |-> date,
     start_time |-> times.start_time, end_time |-> times.end_time,
     hours |-> hours, cost |-> cost, overtime |-> overtime,
     reg_hours |-> reg_hours, ot_hours |-> ot_hours,
     add_total |-> add_total, add_regular |-> add_regular,
     add_overtime |-> add_overtime, add_cost |-> add_cost]

\* the regular part of one shift, given the remaining regular budget
RegHours(shift_hours, regular_remaining) ==
    IF regular_remaining > 0
    THEN (IF shift_hours <= regular_remaining THEN shift_hours ELSE regular_remaining)
    ELSE 0

\* the overtime part of one shift
OtHours(shift_hours, regular_remaining) ==
    IF regular_remaining > 0
    THEN (IF shift_hours <= regular_remaining THEN 0 ELSE shift_hours - regular_remaining)
    ELSE shift_hours

\* variant: a split shift starts a new regular budget
RegularRemaining_Refill(shift_hours, regular_remaining) ==
    IF regular_remaining > 0
    THEN (IF shift_hours <= regular_remaining THEN regular_remaining - shift_hours
          ELSE OvertimeThreshold)
    ELSE regular_remaining

\* variant: a split shift leaves the regular budget as it was
RegularRemaining_KeepBudget(shift_hours, regular_remaining) ==
    IF regular_remaining > 0
    THEN (IF shift_hours <= regular_remaining THEN regular_remaining - shift_hours
          ELSE regular_remaining)
    ELSE regular_remaining

\* regular_remaining after one shift
RegularRemaining(shift_hours, regular_remaining) ==
    IF regular_remaining > 0
    THEN (IF shift_hours <= regular_remaining THEN regular_remaining - shift_hours ELSE 0)
    ELSE regular_remaining

RECURSIVE AssignHours(_, _, _, _, _, _)
\* hourly, weekly_hours > 40: "for date_obj, shift_hours in weekly_shifts"
AssignHours(employee_id, pay_rate, times, shifts, i, regular_remaining) ==
    IF i > Len(shifts) THEN << >>
    ELSE LET shift_hours == shifts[i].hours
             reg_hours   == RegHours(shift_hours, regular_remaining)
             ot_hours    == OtHours(shift_hours, regular_remaining)
             total_cost  == RegularCost(reg_hours, pay_rate) + OvertimeCost(ot_hours, pay_rate)
         IN  << Step(employee_id, shifts[i].date, times, shift_hours, total_cost,
                     ot_hours > 0, reg_hours, ot_hours,
                     shift_hours, reg_hours, ot_hours, total_cost) >>
             \o AssignHours(employee_id, pay_rate, times, shifts, i + 1,
                            RegularRemaining(shift_hours, regular_remaining))

RECURSIVE NoOvertime_DailyOvertime(_, _, _, _, _)
\* variant: hours beyond 8 in one day count as overtime
NoOvertime_DailyOvertime(employee_id, pay_rate, row, closed, i) ==
    IF i > NumDays THEN << >>
    ELSE LET p    == parse_shift_hours(row[i])
             reg  == IF p.hours <= 8 THEN p.hours ELSE 8
             ot   == p.hours - reg
             cost == RegularCost(reg, pay_rate) + OvertimeCost(ot, pay_rate)
         IN  (IF HasText(row, closed, i) /\ p.hours > 0
              THEN << Step(employee_id, i, p, p.hours, cost, ot > 0, reg, ot,
                           p.hours, reg, ot, cost) >>
              ELSE << >>)
             \o NoOvertime_DailyOvertime(employee_id, pay_rate, row, closed, i + 1)

RECURSIVE NoOvertime(_, _, _, _, _)
\* hourly, weekly_hours <= 40: "for i, date_str in enumerate(date_strs)"
NoOvertime(employee_id, pay_rate, row, closed, i) ==
    IF i > NumDays THEN << >>
    ELSE LET p    == parse_shift_hours(row[i])
             cost == p.hours * pay_rate * CostUnit
         IN  (IF HasText(row, closed, i) /\ p.hours > 0
              THEN << Step(employee_id, i, p, p.hours, cost, FALSE, p.hours, 0,
                           p.hours, p.hours, 0, cost) >>
              ELSE << >>)
             \o NoOvertime(employee_id, pay_rate, row, closed, i + 1)

\* variant: the salary is spread over the whole week
WorkingDays_WholeWeek(row, closed) ==
    IF \E i \in Days : HasText(row, closed, i) THEN NumDays ELSE 0

\* salaried: working_days
WorkingDays(row, closed) == Cardinality({i \in Days : HasText(row, closed, i)})

RECURSIVE Salaried_LongDayOvertime(_, _, _, _, _)
\* variant: the hours of a salaried day beyond 8 are overtime
Salaried_LongDayOvertime(employee_id, daily_salary, row, closed, i) ==
    IF i > NumDays THEN << >>
    ELSE LET p   == parse_shift_hours(row[i])
             reg == IF p.hours <= 8 THEN p.hours ELSE 8
         IN  (IF HasText(row, closed, i)
              THEN << Step(employee_id, i, p, p.hours, daily_salary, p.hours > 8, reg,
                           p.hours - reg, p.hours, reg, p.hours - reg, daily_salary) >>
              ELSE << >>)
             \o Salaried_LongDayOvertime(employee_id, daily_salary, row, closed, i + 1)

RECURSIVE Salaried(_, _, _, _, _)
\* salaried, working_days > 0: "for i, date_str in enumerate(date_strs)"
Salaried(employee_id, daily_salary, row, closed, i) ==
    IF i > NumDays THEN << >>
    ELSE LET p == parse_shift_hours(row[i])
         IN  (IF HasText(row, closed, i)
              THEN << Step(employee_id, i, p, p.hours, daily_salary, FALSE, p.hours, 0,
                           p.hours, p.hours, 0, daily_salary) >>
              ELSE << >>)
             \o Salaried(employee_id, daily_salary, row, closed, i + 1)

\* the body of "for _, row in schedule_df.iterrows()" for one employee
EmployeeSteps(employee_id, employee_data, row, closed) ==
    LET weekly_shifts == WeeklyShifts(row, closed, 1)
        weekly_hours  == TotalHours(weekly_shifts, 1)
        working_days  == WorkingDays(row, closed)
    IN  IF employee_data.pay_type = "Hourly"
        THEN IF weekly_hours > OvertimeThreshold
             THEN AssignHours(employee_id, employee_data.pay_rate,
                              LastParsed(row, closed),
                              SortByDate(weekly_shifts, 1), 1, OvertimeThreshold)
             ELSE NoOvertime(employee_id, employee_data.pay_rate, row, closed, 1)
        ELSE IF working_days > 0
             THEN Salaried(employee_id,
                           (employee_data.pay_rate * CostUnit) \div working_days,
                           row, closed, 1)
             ELSE << >>

(***************************************************************************)
(* calculate_labor_costs, the whole pass                                   *)
(***************************************************************************)
RECURSIVE AllSteps(_, _, _, _)
\* "for _, row in schedule_df.iterrows()": the steps of all rows, in row order
AllSteps(emps, grid, closed, e) ==
    IF e > NumEmployees THEN << >>
    ELSE EmployeeSteps(e, emps[e], grid[e], closed) \o AllSteps(emps, grid, closed, e + 1)

RECURSIVE StepsBefore(_, _, _, _, _)
\* the rows processed before the row of employee stop raises
StepsBefore(emps, grid, closed, e, stop) ==
    IF e > NumEmployees \/ e >= stop THEN << >>
    ELSE EmployeeSteps(e, emps[e], grid[e], closed) \o StepsBefore(emps, grid, closed, e + 1, stop)

\* daily_labor = {date_obj: {'total_hours': 0, ...} for date_obj in dates}
EmptyDaily ==
    [d \in Days |-> [total_hours |-> 0, regular_hours |-> 0,
                     overtime_hours |-> 0, total_cost |-> 0]]

RECURSIVE DailyLabor_OvertimeDropped(_, _, _)
\* variant: the overtime hours of a shift are not added to the day
DailyLabor_OvertimeDropped(daily, steps, i) ==
    IF i > Len(steps) THEN daily
    ELSE LET s == steps[i]
         IN  DailyLabor_OvertimeDropped([daily EXCEPT ![s.date] =
                            [total_hours    |-> @.total_hours + s.add_total,
                             regular_hours  |-> @.regular_hours + s.add_regular,
                             overtime_hours |-> @.overtime_hours,
                             total_cost     |-> @.total_cost + s.add_cost]],
                        steps, i + 1)

RECURSIVE DailyLabor(_, _, _)
\* the "Update daily totals" statements of all steps
DailyLabor(daily, steps, i) ==
    IF i > Len(steps) THEN daily
    ELSE LET s == steps[i]
         IN  DailyLabor([daily EXCEPT ![s.date] =
                            [total_hours    |-> @.total_hours + s.add_total,
                             regular_hours  |-> @.regular_hours + s.add_regular,
                             overtime_hours |-> @.overtime_hours + s.add_overtime,
                             total_cost     |-> @.total_cost + s.add_cost]],
                        steps, i + 1)

RECURSIVE SaveSteps(_, _, _)
\* the db.save_schedule calls of all steps, in order
SaveSteps(table, steps, i) ==
    IF i > Len(steps) THEN table
    ELSE SaveSteps(save_schedule(table, steps[i].employee_id, steps[i].date,
                                 steps[i].start_time, steps[i].end_time,
                                 steps[i].hours, steps[i].cost, steps[i].overtime),
                   steps, i + 1)

\* variant: the labor share of the cost instead of the sales that carry it
RequiredSales_Share(total_cost, labor_goal_pct) ==
    IF labor_goal_pct > 0 THEN (total_cost * labor_goal_pct) \div 100 ELSE 0

\* labor_data['total_cost'] / (labor_goal_pct / 100) if labor_goal_pct > 0 else 0
RequiredSales(total_cost, labor_goal_pct) ==
    IF labor_goal_pct > 0 THEN (total_cost * 100) \div labor_goal_pct ELSE 0

\* variant: no day is skipped
SkipDay_Never(labor_data) == FALSE

\* variant: days without hours are skipped
SkipDay_NoHours(labor_data) == labor_data.total_hours = 0

\* "if labor_data['total_cost'] == 0: continue"
SkipDay(labor_data) == labor_data.total_cost = 0

RECURSIVE LaborCalls(_, _, _)
\* "for date_obj, labor_data in daily_labor.items()": the save_labor_cost calls
LaborCalls(daily, labor_goal_pct, d) ==
    IF d > NumDays THEN << >>
    ELSE (IF SkipDay(daily[d]) THEN << >>
          ELSE << [date |-> d,
                   total_hours |-> daily[d].total_hours,
                   regular_hours |-> daily[d].regular_hours,
                   overtime_hours |-> daily[d].overtime_hours,
                   total_cost |-> daily[d].total_cost,
                   labor_goal_percentage |-> labor_goal_pct,
                   required_sales |-> RequiredSales(daily[d].total_cost, labor_goal_pct)] >>)
         \o LaborCalls(daily, labor_goal_pct, d + 1)

RECURSIVE SaveLabor(_, _, _)
\* the db.save_labor_cost calls, in order (actual_sales is not passed: None)
SaveLabor(table, calls, i) ==
    IF i > Len(calls) THEN table
    ELSE SaveLabor(save_labor_cost(table, calls[i].date, calls[i].total_hours,
                                   calls[i].regular_hours, calls[i].overtime_hours,
                                   calls[i].total_cost, calls[i].labor_goal_percentage,
                                   calls[i].required_sales, None),
                   calls, i + 1)

(***************************************************************************)
(* calculate_labor_costs, the "Schedule Summary": one row per day with     *)
(* labor, a WEEKLY TOTAL row, and three metrics.  A percentage is kept as  *)
(* a fraction in lowest terms.                                             *)
(***************************************************************************)
RECURSIVE SummaryData(_, _, _)
\* "for date_obj, labor_data in daily_labor.items()": summary_data
SummaryData(daily, labor_goal_pct, d) ==
    IF d > NumDays THEN << >>
    ELSE (IF daily[d].total_cost > 0
          THEN << [day |-> d,
                   total_hours |-> daily[d].total_hours,
                   labor_cost |-> daily[d].total_cost,
                   required_sales |-> RequiredSales(daily[d].total_cost, labor_goal_pct),
                   overtime_hours |-> daily[d].overtime_hours] >>
          ELSE << >>)
         \o SummaryData(daily, labor_goal_pct, d + 1)

RECURSIVE ColumnSum(_, _, _)
\* summary_df[column].sum()
ColumnSum(df, column, i) ==
    IF i > Len(df) THEN 0 ELSE df[i][column] + ColumnSum(df, column, i + 1)

\* totals_row, its day shown as 'WEEKLY TOTAL'
TotalsRow(summary_data) ==
    [day |-> 0,
     total_hours |-> ColumnSum(summary_data, "total_hours", 1),
     labor_cost |-> ColumnSum(summary_data, "labor_cost", 1),
     required_sales |-> ColumnSum(summary_data, "required_sales", 1),
     overtime_hours |-> ColumnSum(summary_data, "overtime_hours", 1)]

\* summary_df after pd.concat([summary_df, pd.DataFrame([totals_row])])
SummaryDf(summary_data) == summary_data \o << TotalsRow(summary_data) >>

\* variant: the totals row is summed with the days
DayRows_WithTotals(summary_df) == summary_df

\* summary_df.iloc[:-1]  ("Exclude the total row")
DayRows(summary_df) == SubSeq(summary_df, 1, Len(summary_df) - 1)

RECURSIVE GCD(_, _)
GCD(a, b) == IF b = 0 THEN a ELSE GCD(b, a % b)

\* the quotient num / den of two amounts, den > 0, in lowest terms
Ratio(num, den) == << num \div GCD(num, den), den \div GCD(num, den) >>

\* (total_labor_cost / total_required_sales * 100) if total_required_sales > 0 else 0
WeeklyLaborPct(total_labor_cost, total_required_sales) ==
    IF total_required_sales > 0
    THEN Ratio(total_labor_cost * 100, total_required_sales)
    ELSE Ratio(0, 1)

\* "Total Weekly Labor Cost", "Required Weekly Sales", "Projected Labor %"
Metrics(summary_df) ==
    LET total_labor_cost     == ColumnSum(DayRows(summary_df), "labor_cost", 1)
        total_required_sales == ColumnSum(DayRows(summary_df), "required_sales", 1)
    IN  [total_labor_cost |-> total_labor_cost,
         total_required_sales |-> total_required_sales,
         weekly_labor_pct |-> WeeklyLaborPct(total_labor_cost, total_required_sales)]

(***************************************************************************)
(* save_schedule_to_db                                                     *)
(***************************************************************************)
\* the body of "for i, date_str in enumerate(date_strs)" for one cell:
\* db.save_schedule is called without cost and overtime (None and False)
SaveCell(table, employee_id, row, closed, i) ==
    LET p        == parse_shift_hours(row[i])
        matching == {r \in table : r.employee_id = employee_id /\ r.date = i}
    IN  IF closed[i] THEN table
        ELSE IF HasText(row, closed, i)
        THEN save_schedule(table, employee_id, i, p.start_time, p.end_time, p.hours, None, FALSE)
        ELSE IF matching # {}
        THEN save_schedule(table, employee_id, i, None, None, 0, None, FALSE)
        ELSE table

RECURSIVE SaveRow(_, _, _, _, _)
\* "for i, date_str in enumerate(date_strs)" for one row
SaveRow(table, employee_id, row, closed, i) ==
    IF i > NumDays THEN table
    ELSE SaveRow(SaveCell(table, employee_id, row, closed, i), employee_id, row, closed, i + 1)

RECURSIVE save_schedule_to_db(_, _, _, _)
\* "for _, row in schedule_df.iterrows()"
save_schedule_to_db(table, grid, closed, e) ==
    IF e > NumEmployees THEN table
    ELSE save_schedule_to_db(SaveRow(table, e, grid[e], closed, 1), grid, closed, e + 1)

(***************************************************************************)
(* The schedule grid as schedule_tab builds it: columns of closed days     *)
(* hold "CLOSED" and are not editable, unless a stored shift of that date  *)
(* is filled in; every other cell holds what the user typed.               *)
(***************************************************************************)
\* f"{h if h <= 12 else h - 12}{'am' if h < 12 else 'pm'}"
FormatHour(h) == Tok(IF h <= 12 THEN h ELSE h - 12, IF h < 12 THEN "am" ELSE "pm")

\* "Fill in existing schedule data"
StoredText(table, employee_id, date) ==
    LET rows == {r \in table : /\ r.employee_id = employee_id
                               /\ r.date = date
                               /\ r.start_time # None
                               /\ r.end_time # None}
        r    == FetchOne(rows)
    IN  IF rows = {} THEN ClosedText
        ELSE Shift(FormatHour(r.start_time), FormatHour(r.end_time))

\* edited_schedule
EditedSchedule(typed, table, closed) ==
    [e \in EmployeeIds |->
        [d \in Days |-> IF closed[d] THEN StoredText(table, e, d) ELSE typed[e][d]]]

(***************************************************************************)
(* Input domains                                                           *)
(***************************************************************************)
T8 == Shift(Tok(9, "am"), Tok(5, "pm"))         \* "9am-5pm"    8 h

T10 == Shift(Tok(8, "am"), Tok(6, "pm"))        \* "8am-6pm"   10 h

T12 == Shift(Tok(8, "am"), Tok(8, "pm"))        \* "8am-8pm"   12 h

TBare == Shift(Tok(10, ""), Tok(6, ""))         \* "10-6"      20 h

TNight == Shift(Tok(11, "pm"), Tok(7, "am"))    \* "11pm-7am"   8 h

TAbc == NoDash(Tok(NonNumeric, ""))             \* "abc"

T957 == TwoDash(Tok(9, ""), Tok(5, ""), Tok(7, ""))   \* "9-5-7"

TLate == Shift(Tok(50, ""), Tok(2, ""))          \* "50-2"     -12 h

\* weeks of the first employee
RowsA ==
    { << EmptyText, EmptyText, EmptyText, EmptyText, EmptyText, EmptyText, EmptyText >>,
      << T10, T10, T10, T10, T10, EmptyText, EmptyText >>,
      << T10, T10, T10, T10, EmptyText, EmptyText, EmptyText >>,
      << T12, T12, T12, T12, T10, EmptyText, TAbc >>,
      << T8, TBare, TNight, T8, T8, T12, EmptyText >>,
      << T8, T957, TAbc, TLate, ClosedText, T12, EmptyText >> }

\* weeks of the second employee
RowsB ==
    { << EmptyText, EmptyText, EmptyText, EmptyText, EmptyText, EmptyText, EmptyText >>,
      << EmptyText, EmptyText, TNight, T12, T10, T8, TAbc >> }

\* week of any further employee
RowsC == { << T8, T8, T8, EmptyText, EmptyText, EmptyText, EmptyText >> }

RowOptions(e) == IF e = 1 THEN RowsA ELSE IF e = 2 THEN RowsB ELSE RowsC

Pay(pay_type, pay_rate) == [pay_type |-> pay_type, pay_rate |-> pay_rate]

\* pay_type and pay_rate (dollars per hour, or per week for a salary)
PayOptions(e) ==
    IF e = 1 THEN {Pay("Hourly", 12), Pay("Hourly", 0), Pay("Salary", 700)}
    ELSE IF e = 2 THEN {Pay("Hourly", 15), Pay("Salary", 700)}
    ELSE {Pay("Hourly", 15)}

\* settings['closed_days'] as date_closed: nothing closed, or the third day
ClosedOptions == { [d \in Days |-> FALSE], [d \in Days |-> d = 3] }

\* settings['labor_goal_percentage']
GoalOptions == {0, 25}

(***************************************************************************)
(* State                                                                   *)
(***************************************************************************)
VARIABLES
    employees,        \* employees table: id -> pay_type, pay_rate
    date_closed,      \* date_closed[i] of the week shown
    labor_goal_pct,   \* settings['labor_goal_percentage']
    schedule_df,      \* the cells the user typed into the schedule grid
    schedules,        \* schedules table
    labor_costs,      \* labor_costs table
    steps,            \* last calculation: its per-shift steps
    daily_labor,      \* last calculation: its daily_labor dictionary
    labor_calls,      \* last calculation: its save_labor_cost calls
    runs,             \* number of calculations so far
    repeats,          \* consecutive completed calculations on unchanged inputs
    active,           \* ids of the employees table with active = 1
    error,            \* the exception that left the last calculation, or "none"
    shift_str,        \* parser on its own: the text given to parse_shift_hours
    parse_call,       \* parser on its own: the outcome of the call, or NotCalled
    sessions          \* storage on its own: each session's position in its save call

vars == << employees, date_closed, labor_goal_pct, schedule_df, schedules,
           labor_costs, steps, daily_labor, labor_calls, runs, repeats,
           active, error, shift_str, parse_call, sessions >>

\* the connections writing at once; each save call opens its own
Sessions == 1 .. NumSessions

\* a session between two save calls, done of them completed
Idle(done) ==
    [pc |-> "idle", call |-> [op |-> "none", employee_id |-> None, date |-> None, hours |-> None],
     existing_entry |-> None, done |-> done]

\* no call of the parser on its own yet
NotCalled == Outcome(ZeroShift, FALSE, "not called")

parse_vars == << shift_str, parse_call >>

Init ==
    /\ employees \in {f \in [EmployeeIds -> UNION {PayOptions(e) : e \in EmployeeIds}] :
                         \A e \in EmployeeIds : f[e] \in PayOptions(e)}
    /\ schedule_df \in {g \in [EmployeeIds -> RowsA \cup RowsB \cup RowsC] :
                         \A e \in EmployeeIds : g[e] \in RowOptions(e)}
    /\ date_closed \in ClosedOptions
    /\ labor_goal_pct \in GoalOptions
    /\ schedules = {}
    /\ labor_costs = {}
    /\ steps = << >>
    /\ daily_labor = EmptyDaily
    /\ labor_calls = << >>
    /\ runs = 0
    /\ repeats = 0
    /\ active = EmployeeIds
    /\ error = "none"
    /\ shift_str = EmptyText
    /\ parse_call = NotCalled
    /\ sessions = [s \in Sessions |-> Idle(0)]

\* the user retypes the first employee's week in the grid
EditSchedule ==
    /\ runs < MaxRuns
    /\ error = "none"
    /\ \E row \in RowOptions(1) :
          /\ row # schedule_df[1]
          /\ schedule_df' = [schedule_df EXCEPT ![1] = row]
    /\ repeats' = 0
    /\ UNCHANGED << employees, date_closed, labor_goal_pct, schedules, labor_costs,
                    steps, daily_labor, labor_calls, runs, active, error >>
    /\ UNCHANGED << parse_vars, sessions >>

\* "Save Settings" with one more closed day
UpdateClosedDays ==
    /\ runs < MaxRuns
    /\ error = "none"
    /\ \E closed \in ClosedOptions :
          /\ closed # date_closed
          /\ \A d \in Days : date_closed[d] => closed[d]
          /\ date_closed' = closed
    /\ repeats' = 0
    /\ UNCHANGED << employees, labor_goal_pct, schedule_df, schedules, labor_costs,
                    steps, daily_labor, labor_calls, runs, active, error >>
    /\ UNCHANGED << parse_vars, sessions >>

\* button "Save Schedule": save_schedule_to_db(edited_schedule, ...)
SaveSchedule ==
    /\ runs < MaxRuns
    /\ error = "none"
    /\ schedules' = save_schedule_to_db(schedules,
                                        EditedSchedule(schedule_df, schedules, date_closed),
                                        date_closed, 1)
    /\ repeats' = 0
    /\ UNCHANGED << employees, date_closed, labor_goal_pct, schedule_df, labor_costs,
                    steps, daily_labor, labor_calls, runs, active, error >>
    /\ UNCHANGED << parse_vars, sessions >>

\* the amounts typed into the actual-sales form, in dollars
SalesAmounts == {1000}

\* the row that the form updates for a date: date_labor.iloc[0]
SalesRow(table, date) == FetchOne({r \in table : r.date = date})

\* reports tab, "Save Actual Sales" with an amount for the first date listed:
\* UPDATE labor_costs SET actual_sales = ? WHERE id = ?
SaveActualSales ==
    /\ runs < MaxRuns
    /\ error = "none"
    /\ labor_costs # {}
    /\ \E sales_amount \in SalesAmounts :
          LET first == CHOOSE d \in {r.date : r \in labor_costs} :
                           \A r \in labor_costs : d <= r.date
              row   == SalesRow(labor_costs, first)
          IN  labor_costs' = (labor_costs \ {row}) \cup
                                 {[row EXCEPT !.actual_sales = sales_amount * CostUnit]}
    /\ repeats' = 0
    /\ UNCHANGED << employees, date_closed, labor_goal_pct, schedule_df, schedules,
                    steps, daily_labor, labor_calls, runs, active, error >>
    /\ UNCHANGED << parse_vars, sessions >>

\* the employees that database.delete_employee, called by another session,
\* takes off the list between the read the grid is built from (scheduler.py
\* 118) and the read of the calculation (281): none, or the employee of the
\* first row, or the employee of the last row
GoneOptions == {{}, {1}, {NumEmployees}}

\* button "Calculate Schedule Labor Cost": calculate_labor_costs(edited_schedule, ...)
\* The row of an employee that is gone raises IndexError at ".iloc[0]"; the
\* rows before it have been processed and saved.  A behaviour of the model
\* ends at the first exception that leaves the calculation.
CalculateLaborCosts ==
    /\ runs < MaxRuns
    /\ error = "none"
    /\ \E gone \in GoneOptions :
          LET grid == EditedSchedule(schedule_df, schedules, date_closed)
          IN  /\ steps' = IF gone = {} THEN AllSteps(employees, grid, date_closed, 1)
                          ELSE StepsBefore(employees, grid, date_closed, 1, CHOOSE e \in gone : TRUE)
              /\ daily_labor' = DailyLabor(EmptyDaily, steps', 1)
              /\ labor_calls' = IF gone = {} THEN LaborCalls(daily_labor', labor_goal_pct, 1)
                                ELSE << >>
              /\ schedules' = SaveSteps(schedules, steps', 1)
              /\ labor_costs' = SaveLabor(labor_costs, labor_calls', 1)
              /\ error' = IF gone = {} THEN "none" ELSE "IndexError"
              /\ repeats' = IF gone = {} THEN repeats + 1 ELSE 0
              /\ active' = active \ gone
    /\ runs' = runs + 1
    /\ UNCHANGED << employees, date_closed, labor_goal_pct, schedule_df >>
    /\ UNCHANGED << parse_vars, sessions >>

Next == EditSchedule \/ UpdateClosedDays \/ CalculateLaborCosts

Spec == Init /\ [][Next]_vars

(***************************************************************************)
(* The schedule tab with its "Save Schedule" button and the reports tab    *)
(* with its actual-sales form, for one choice of employees and settings.   *)
(***************************************************************************)
TabsInit ==
    /\ Init
    /\ employees = [e \in EmployeeIds |->
                       IF e = 1 THEN Pay("Hourly", 12)
                       ELSE IF e = 2 THEN Pay("Salary", 700)
                       ELSE Pay("Hourly", 15)]
    /\ date_closed = [d \in Days |-> FALSE]
    /\ labor_goal_pct = 25

TabsNext == EditSchedule \/ SaveSchedule \/ SaveActualSales \/ CalculateLaborCosts

TabsSpec == TabsInit /\ [][TabsNext]_vars

(***************************************************************************)
(* The parser on its own: parse_shift_hours applied to one shift text.     *)
(***************************************************************************)
\* largest hour value of a token, besides LateHours
MaxHour == 13

\* hour values past the clock
LateHours == {24, 36, 50}

\* time tokens: a number, or text float() rejects, or nan, with am, pm or no suffix
Tokens == {Tok(v, suf) : v \in (0..MaxHour) \cup LateHours \cup {NonNumeric, NotFinite},
                         suf \in {"am", "pm", ""}}

\* shift texts: empty, "CLOSED", one token, two tokens, three tokens
ShiftTexts ==
    {EmptyText, ClosedText}
        \cup {NoDash(a) : a \in Tokens}
        \cup {Shift(a, b) : a, b \in Tokens}
        \cup {TwoDash(a, b, a) : a, b \in Tokens}

ParseInit ==
    /\ shift_str \in ShiftTexts
    /\ parse_call = NotCalled
    /\ employees = [e \in EmployeeIds |-> Pay("Hourly", 0)]
    /\ schedule_df = [e \in EmployeeIds |-> [d \in Days |-> EmptyText]]
    /\ date_closed = [d \in Days |-> FALSE]
    /\ labor_goal_pct = 0
    /\ schedules = {}
    /\ labor_costs = {}
    /\ steps = << >>
    /\ daily_labor = EmptyDaily
    /\ labor_calls = << >>
    /\ runs = 0
    /\ repeats = 0
    /\ active = EmployeeIds
    /\ error = "none"
    /\ sessions = [s \in Sessions |-> Idle(0)]

\* parse_shift_hours(shift_str)
ParseShift ==
    /\ parse_call = NotCalled
    /\ parse_call' = ParseCall(shift_str)
    /\ UNCHANGED << shift_str, employees, date_closed, labor_goal_pct, schedule_df,
                    schedules, labor_costs, steps, daily_labor, labor_calls, runs, repeats,
                    active, error, sessions >>

ParseNext == ParseShift

ParseSpec == ParseInit /\ [][ParseNext]_vars

(***************************************************************************)
(* The storage on its own: save_schedule and save_labor_cost called from   *)
(* several sessions.  Every call opens its own connection                  *)
(* (get_db_connection), reads with a SELECT outside any transaction, and   *)
(* then writes and commits; sqlite serialises the writes, so the UPDATE or *)
(* INSERT with its commit is one step, and the SELECT before it another.   *)
(* Neither table declares its key UNIQUE.                                  *)
(***************************************************************************)
\* the calls a session makes: one employee's shift of a date, as Save
\* Schedule writes it, or the totals of a date
StoreCalls ==
    [op : {"save_schedule"}, employee_id : {1}, date : 1..2, hours : {6, 8}]
        \cup [op : {"save_labor_cost"}, employee_id : {None}, date : 1..2, hours : {6, 8}]

\* "SELECT id FROM schedules WHERE employee_id = ? AND date = ?" or
\* "SELECT id FROM labor_costs WHERE date = ?", then cursor.fetchone()
SelectExisting(call, schedule_table, labor_table) ==
    LET matching == IF call.op = "save_schedule"
                    THEN {r \in schedule_table : /\ r.employee_id = call.employee_id
                                                 /\ r.date = call.date}
                    ELSE {r \in labor_table : r.date = call.date}
    IN  IF matching = {} THEN None ELSE FetchOne(matching).id

\* save_schedule after its SELECT: "if existing_entry:" UPDATE ... WHERE id = ?,
\* else INSERT
WriteSchedule(table, call, existing_entry) ==
    LET values(id) == [id |-> id, employee_id |-> call.employee_id, date |-> call.date,
                       start_time |-> 9, end_time |-> 9 + call.hours,
                       hours |-> call.hours, cost |-> None, overtime |-> FALSE]
    IN  IF existing_entry # None
        THEN {IF r.id = existing_entry
              THEN [values(r.id) EXCEPT !.employee_id = r.employee_id, !.date = r.date]
              ELSE r : r \in table}
        ELSE table \cup {values(NextId(table))}

\* save_labor_cost after its SELECT
WriteLaborCost(table, call, existing_entry) ==
    LET values(id) == [id |-> id, date |-> call.date, total_hours |-> call.hours,
                       regular_hours |-> call.hours, overtime_hours |-> 0,
                       total_cost |-> call.hours * 12 * CostUnit,
                       labor_goal_percentage |-> 25,
                       required_sales |-> call.hours * 12 * 4 * CostUnit,
                       actual_sales |-> None]
    IN  IF existing_entry # None
        THEN {IF r.id = existing_entry
              THEN [values(r.id) EXCEPT !.date = r.date]
              ELSE r : r \in table}
        ELSE table \cup {values(NextId(table))}

tab_vars == << employees, date_closed, labor_goal_pct, schedule_df, steps, daily_labor,
              labor_calls, runs, repeats, active, error >>

StoreInit ==
    /\ sessions = [s \in Sessions |-> Idle(0)]
    /\ schedules = {}
    /\ labor_costs = {}
    /\ shift_str = EmptyText
    /\ parse_call = NotCalled
    /\ employees = [e \in EmployeeIds |-> Pay("Hourly", 12)]
    /\ schedule_df = [e \in EmployeeIds |-> [d \in Days |-> EmptyText]]
    /\ date_closed = [d \in Days |-> FALSE]
    /\ labor_goal_pct = 25
    /\ steps = << >>
    /\ daily_labor = EmptyDaily
    /\ labor_calls = << >>
    /\ runs = 0
    /\ repeats = 0
    /\ active = EmployeeIds
    /\ error = "none"

\* a session enters save_schedule or save_labor_cost
BeginSave(s) ==
    /\ sessions[s].pc = "idle"
    /\ sessions[s].done < MaxCalls
    /\ \E call \in StoreCalls :
           sessions' = [sessions EXCEPT ![s] = [@ EXCEPT !.pc = "select", !.call = call]]
    /\ UNCHANGED << schedules, labor_costs, tab_vars, parse_vars >>

\* existing_entry = cursor.fetchone()
CheckExisting(s) ==
    /\ sessions[s].pc = "select"
    /\ sessions' = [sessions EXCEPT ![s] =
                       [@ EXCEPT !.pc = "write",
                                 !.existing_entry =
                                     SelectExisting(sessions[s].call, schedules, labor_costs)]]
    /\ UNCHANGED << schedules, labor_costs, tab_vars, parse_vars >>

\* the UPDATE or the INSERT, conn.commit(), conn.close(), return True
WriteAndCommit(s) ==
    /\ sessions[s].pc = "write"
    /\ IF sessions[s].call.op = "save_schedule"
       THEN /\ schedules' = WriteSchedule(schedules, sessions[s].call,
                                          sessions[s].existing_entry)
            /\ UNCHANGED labor_costs
       ELSE /\ labor_costs' = WriteLaborCost(labor_costs, sessions[s].call,
                                             sessions[s].existing_entry)
            /\ UNCHANGED schedules
    /\ sessions' = [sessions EXCEPT ![s] = Idle(sessions[s].done + 1)]
    /\ UNCHANGED << tab_vars, parse_vars >>

StoreNext == \E s \in Sessions : BeginSave(s) \/ CheckExisting(s) \/ WriteAndCommit(s)

StoreSpec == StoreInit /\ [][StoreNext]_vars

(***************************************************************************)
(* Definitions used by the properties                                      *)
(***************************************************************************)
RECURSIVE SumInts(_, _)
SumInts(s, i) == IF i > Len(s) THEN 0 ELSE s[i] + SumInts(s, i + 1)

\* the last calculation ran on the inputs of the current state
Calculated == repeats > 0

Hourly(e) == employees[e].pay_type = "Hourly"

StepsOf(e) == SelectSeq(steps, LAMBDA s : s.employee_id = e)

StepsOn(d) == SelectSeq(steps, LAMBDA s : s.date = d)

RegularSum(ss) == SumInts([i \in 1..Len(ss) |-> ss[i].reg_hours], 1)

OvertimeSum(ss) == SumInts([i \in 1..Len(ss) |-> ss[i].ot_hours], 1)

HoursSum(ss) == SumInts([i \in 1..Len(ss) |-> ss[i].hours], 1)

CostSum(ss) == SumInts([i \in 1..Len(ss) |-> ss[i].cost], 1)

\* the hours of employee e's shift on day d: the parsed duration of the cell
\* when the day is open and the duration is positive, else 0
ShiftHours(e, d) ==
    IF date_closed[d] THEN 0
    ELSE IF parse_shift_hours(schedule_df[e][d]).hours > 0
         THEN parse_shift_hours(schedule_df[e][d]).hours
         ELSE 0

\* weeklyHours of employee e
WeeklyHours(e) == SumInts([d \in Days |-> ShiftHours(e, d)], 1)

Max(a, b) == IF a >= b THEN a ELSE b

Min(a, b) == IF a <= b THEN a ELSE b

(***************************************************************************)
(* C1.  For every hourly employee, the regular and overtime hours that     *)
(* calculate_labor_costs assigns across the employee's shifts satisfy:     *)
(* sum of regular hours <= 40, sum of overtime hours =                     *)
(* max(0, weeklyHours - 40), and regular + overtime = weeklyHours.         *)
(***************************************************************************)
C1_HourlyWeekSplit ==
    Calculated =>
        \A e \in EmployeeIds :
            Hourly(e) =>
                /\ RegularSum(StepsOf(e)) <= 40
                /\ OvertimeSum(StepsOf(e)) = Max(0, WeeklyHours(e) - 40)
                /\ RegularSum(StepsOf(e)) + OvertimeSum(StepsOf(e)) = WeeklyHours(e)

\* an hourly employee over 40 hours whose week has a split shift followed by
\* a later shift
C1_Witness ==
    /\ Calculated
    /\ \E e \in EmployeeIds :
          /\ Hourly(e)
          /\ WeeklyHours(e) > 40
          /\ \E i, j \in 1..Len(StepsOf(e)) :
                /\ i < j
                /\ StepsOf(e)[i].reg_hours > 0
                /\ StepsOf(e)[i].ot_hours > 0

(***************************************************************************)
(* Closed forms used by C2 and C3: the hours an employee worked before     *)
(* day d, the regular budget left at day d, and the two parts of the       *)
(* shift of day d.                                                         *)
(***************************************************************************)
HoursBefore(e, d) == SumInts([k \in Days |-> IF k < d THEN ShiftHours(e, k) ELSE 0], 1)

BudgetAt(e, d) == Max(0, 40 - HoursBefore(e, d))

RegularPart(e, d) == Min(ShiftHours(e, d), BudgetAt(e, d))

OvertimePart(e, d) == ShiftHours(e, d) - RegularPart(e, d)

WorkedDays(e) == {d \in Days : ShiftHours(e, d) > 0}

Dates(ss) == [i \in 1..Len(ss) |-> ss[i].date]

Ascending(ds) == \A i, j \in 1..Len(ds) : i < j => ds[i] < ds[j]

FiveTens == << T10, T10, T10, T10, T10, EmptyText, EmptyText >>

NothingClosed == \A d \in Days : ~date_closed[d]

(***************************************************************************)
(* C2.  For an hourly employee with weeklyHours > 40 the shifts are        *)
(* processed in ascending date order against a regular budget that starts  *)
(* at 40: the regular part of each shift is min(shift hours, remaining     *)
(* budget), the rest is overtime, and a shift equal to the remaining       *)
(* budget is fully regular.  Five 10-hour shifts Mon-Fri give Mon-Thu      *)
(* fully regular and Fri's 10 hours entirely overtime.                     *)
(***************************************************************************)
C2_GreedyDateOrder ==
    Calculated =>
        \A e \in EmployeeIds :
            (Hourly(e) /\ WeeklyHours(e) > 40) =>
                LET ss == StepsOf(e)
                IN  /\ Ascending(Dates(ss))
                    /\ {ss[i].date : i \in 1..Len(ss)} = WorkedDays(e)
                    /\ \A i \in 1..Len(ss) :
                          /\ ss[i].hours = ShiftHours(e, ss[i].date)
                          /\ ss[i].reg_hours = RegularPart(e, ss[i].date)
                          /\ ss[i].ot_hours = OvertimePart(e, ss[i].date)
                          /\ (ss[i].hours = BudgetAt(e, ss[i].date) => ss[i].ot_hours = 0)
                    /\ (schedule_df[e] = FiveTens /\ NothingClosed) =>
                          /\ Len(ss) = 5
                          /\ \A i \in 1..4 : ss[i].reg_hours = 10 /\ ss[i].ot_hours = 0
                          /\ ss[5].reg_hours = 0 /\ ss[5].ot_hours = 10

\* the five 10-hour shifts have been calculated: Thu exactly uses up the budget
C2_Witness ==
    /\ Calculated
    /\ NothingClosed
    /\ \E e \in EmployeeIds :
          /\ Hourly(e)
          /\ schedule_df[e] = FiveTens
          /\ Len(StepsOf(e)) = 5
          /\ StepsOf(e)[4].hours = BudgetAt(e, 4)

(***************************************************************************)
(* C3.  For every shift of an hourly employee in the overtime case the     *)
(* stored shift cost is regular part * payRate + overtime part * payRate   *)
(* * 1.5, and the stored overtime flag is true iff the overtime part is    *)
(* greater than zero.                                                      *)
(***************************************************************************)
C3_OvertimeCost ==
    Calculated =>
        \A e \in EmployeeIds :
            (Hourly(e) /\ WeeklyHours(e) > 40) =>
                \A d \in WorkedDays(e) :
                    LET rows == {r \in schedules : r.employee_id = e /\ r.date = d}
                    IN  /\ Cardinality(rows) = 1
                        /\ \A r \in rows :
                              /\ 2 * r.cost = CostUnit * employees[e].pay_rate *
                                              (2 * RegularPart(e, d) + 3 * OvertimePart(e, d))
                              /\ r.overtime = (OvertimePart(e, d) > 0)

\* a stored split shift of a paid hourly employee, with a later overtime shift
C3_Witness ==
    /\ Calculated
    /\ \E e \in EmployeeIds :
          /\ Hourly(e)
          /\ employees[e].pay_rate > 0
          /\ \E r, q \in schedules :
                /\ r.employee_id = e /\ q.employee_id = e
                /\ r.date < q.date
                /\ RegularPart(e, r.date) > 0 /\ OvertimePart(e, r.date) > 0
                /\ r.overtime /\ q.overtime

(***************************************************************************)
(* C4.  For an hourly employee whose weekly hours are at most 40           *)
(* (including exactly 40) every worked shift is entirely regular: its cost *)
(* is hours * payRate, its overtime flag is false, and it adds nothing to  *)
(* any day's overtime hours.                                               *)
(***************************************************************************)
C4_NoOvertimeUpTo40 ==
    Calculated =>
        \A e \in EmployeeIds :
            (Hourly(e) /\ WeeklyHours(e) <= 40) =>
                LET ss == StepsOf(e)
                IN  /\ {ss[i].date : i \in 1..Len(ss)} = WorkedDays(e)
                    /\ \A i \in 1..Len(ss) :
                          /\ ss[i].hours = ShiftHours(e, ss[i].date)
                          /\ ss[i].cost = ss[i].hours * employees[e].pay_rate * CostUnit
                          /\ ss[i].overtime = FALSE
                          /\ ss[i].add_overtime = 0
                          /\ ss[i].add_regular = ss[i].hours
                          /\ \E r \in schedules :
                                /\ r.employee_id = e /\ r.date = ss[i].date
                                /\ r.cost = ss[i].hours * employees[e].pay_rate * CostUnit
                                /\ r.overtime = FALSE

\* a paid hourly employee with exactly 40 weekly hours and a shift over 8 hours
C4_Witness ==
    /\ Calculated
    /\ \E e \in EmployeeIds :
          /\ Hourly(e)
          /\ employees[e].pay_rate > 0
          /\ WeeklyHours(e) = 40
          /\ \E i \in 1..Len(StepsOf(e)) : StepsOf(e)[i].hours > 8

(***************************************************************************)
(* C5.  For a salaried employee with workingDays > 0 every working day is  *)
(* charged the same amount payRate / workingDays regardless of the day's   *)
(* duration, non-working days are charged 0, and the daily costs of the    *)
(* week sum to payRate; with workingDays = 0 the employee contributes      *)
(* nothing.  Here workingDays is the working_days the code computes: the   *)
(* number of open days whose cell holds a text (what it counts is C6).     *)
(***************************************************************************)
TextDays(e) ==
    {d \in Days : /\ ~date_closed[d]
                  /\ schedule_df[e][d] # EmptyText
                  /\ schedule_df[e][d] # ClosedText}

NonzeroDays(e) ==
    {d \in Days : /\ ~date_closed[d]
                  /\ parse_shift_hours(schedule_df[e][d]).hours # 0}

C6_WorkingDaysNonzeroDuration ==
    Calculated =>
        \A e \in EmployeeIds :
            ~Hourly(e) =>
                LET ss == StepsOf(e)
                IN  /\ {ss[i].date : i \in 1..Len(ss)} = NonzeroDays(e)
                    /\ \A i \in 1..Len(ss) :
                          ss[i].cost * Cardinality(NonzeroDays(e)) =
                              employees[e].pay_rate * CostUnit
                    /\ \A r \in schedules :
                          (r.employee_id = e /\ r.date \notin NonzeroDays(e)) => r.cost = 0

(***************************************************************************)
(* C7.  For every date of the week the daily total's totalHours,           *)
(* regularHours, overtimeHours and totalCost each equal the sum of the     *)
(* corresponding values over all employees' shifts on that date, and       *)
(* regularHours + overtimeHours = totalHours for every daily total.        *)
(***************************************************************************)
C7_DailyAggregation ==
    Calculated =>
        \A d \in Days :
            /\ daily_labor[d].total_hours = HoursSum(StepsOn(d))
            /\ daily_labor[d].regular_hours = RegularSum(StepsOn(d))
            /\ daily_labor[d].overtime_hours = OvertimeSum(StepsOn(d))
            /\ daily_labor[d].total_cost = CostSum(StepsOn(d))
            /\ daily_labor[d].regular_hours + daily_labor[d].overtime_hours
                  = daily_labor[d].total_hours
            /\ \A i \in 1..Len(labor_calls) :
                  labor_calls[i].date = d =>
                      /\ labor_calls[i].total_hours = HoursSum(StepsOn(d))
                      /\ labor_calls[i].total_cost = CostSum(StepsOn(d))
                      /\ labor_calls[i].regular_hours + labor_calls[i].overtime_hours
                            = labor_calls[i].total_hours

\* a date on which two employees worked, one of them with overtime
C7_Witness ==
    /\ Calculated
    /\ \E d \in Days :
          /\ Len(StepsOn(d)) >= 2
          /\ daily_labor[d].overtime_hours > 0
          /\ daily_labor[d].regular_hours > 0
          /\ \E i \in 1..Len(labor_calls) : labor_calls[i].date = d

(***************************************************************************)
(* C8.  A daily labor total is written for a date if and only if that      *)
(* date's aggregated totalCost is nonzero; dates with totalCost = 0        *)
(* (including dates with worked hours but zero cost) produce no            *)
(* save_labor_cost call.                                                   *)
(***************************************************************************)
WrittenDates == {labor_calls[i].date : i \in 1..Len(labor_calls)}

C8_WrittenIffCost ==
    Calculated =>
        /\ \A d \in Days : (d \in WrittenDates) <=> (CostSum(StepsOn(d)) # 0)
        /\ Len(labor_calls) = Cardinality(WrittenDates)
        /\ runs = 1 => {r.date : r \in labor_costs} = {d \in Days : CostSum(StepsOn(d)) # 0}
        /\ WrittenDates \subseteq {r.date : r \in labor_costs}

\* one date with worked hours but no cost is not written, another date is
C8_Witness ==
    /\ Calculated
    /\ \E d \in Days :
          /\ HoursSum(StepsOn(d)) > 0
          /\ CostSum(StepsOn(d)) = 0
          /\ d \notin WrittenDates
    /\ WrittenDates # {}

(***************************************************************************)
(* C9.  For every daily total written, requiredSales = totalCost /         *)
(* (laborGoalPct / 100) when laborGoalPct > 0 (totalCost 1000 at 25% gives *)
(* 4000), and requiredSales = 0 when laborGoalPct <= 0.                    *)
(***************************************************************************)
C9_RequiredSales ==
    /\ RequiredSales(1000 * CostUnit, 25) = 4000 * CostUnit
    /\ RequiredSales(1000 * CostUnit, 0) = 0
    /\ Calculated =>
          /\ \A i \in 1..Len(labor_calls) :
                /\ labor_goal_pct > 0 =>
                      labor_calls[i].required_sales * labor_goal_pct
                          = CostSum(StepsOn(labor_calls[i].date)) * 100
                /\ labor_goal_pct <= 0 => labor_calls[i].required_sales = 0
          /\ \A d \in WrittenDates :
                \E r \in labor_costs :
                    /\ r.date = d
                    /\ r.total_cost = CostSum(StepsOn(d))
                    /\ labor_goal_pct > 0 =>
                          r.required_sales * labor_goal_pct = r.total_cost * 100
                    /\ labor_goal_pct <= 0 => r.required_sales = 0

\* totals were written under a positive goal
C9_Witness ==
    /\ Calculated
    /\ labor_goal_pct = 25
    /\ \E r \in labor_costs : r.total_cost > 0 /\ r.required_sales = 4 * r.total_cost

(***************************************************************************)
(* C10.  Idempotence: running calculate_labor_costs twice in a row on      *)
(* identical inputs leaves the stored shift cost entries and daily labor   *)
(* totals identical to the state after the first run: one schedules row    *)
(* per (employee, date), one labor_costs row per date, no duplicates and   *)
(* no accumulation.                                                        *)
(***************************************************************************)
OneRowPerShift(table) ==
    \A r, q \in table : (r.employee_id = q.employee_id /\ r.date = q.date) => r = q

OneRowPerDate(table) == \A r, q \in table : r.date = q.date => r = q

C10_Idempotent ==
    [][ (repeats >= 1 /\ repeats' = repeats + 1) =>
            /\ schedules' = schedules
            /\ labor_costs' = labor_costs
            /\ OneRowPerShift(schedules')
            /\ OneRowPerDate(labor_costs') ]_vars

\* a second calculation in a row, with shift entries and daily totals stored
C10_Witness ==
    /\ repeats = 2
    /\ schedules # {}
    /\ labor_costs # {}

(***************************************************************************)
(* Definitions used by the properties of the parser                       *)
(***************************************************************************)
\* parse_shift_hours has been called on shift_str
Called == parse_call # NotCalled

\* shift_str has no '-': it is one token
OneToken == shift_str.lit = "text" /\ Len(shift_str.toks) = 1

(***************************************************************************)
(* C11.  parse_shift_hours returns the zero shift (None, None, 0), raising *)
(* nothing and showing no warning, when the shift text is empty, is the    *)
(* closed-day marker "CLOSED", or has no '-' separator.                    *)
(***************************************************************************)
C11_ZeroShiftTexts ==
    (Called /\ (shift_str = EmptyText \/ shift_str = ClosedText \/ OneToken)) =>
        parse_call = Outcome(ZeroShift, FALSE, "none")

\* the parser has been called on "9am", a text without '-'
C11_Witness ==
    /\ Called
    /\ shift_str = NoDash(Tok(9, "am"))
    /\ parse_call.result = ZeroShift
\* a parse failure: more than one '-', or a token of a two-token text that is
\* not a finite number
ParseFailure ==
    /\ shift_str.lit = "text"
    /\ \/ Len(shift_str.toks) > 2
       \/ /\ Len(shift_str.toks) = 2
          /\ \E i \in 1..2 : shift_str.toks[i].v \in {NonNumeric, NotFinite}

(***************************************************************************)
(* C12.  For every shift text, parse_shift_hours never raises: any parse   *)
(* failure (a non-numeric time token, more than one '-') yields the zero   *)
(* shift (None, None, 0) together with a warning, so no exception reaches  *)
(* the batch that called it.                                               *)
(***************************************************************************)
C12_NeverRaises ==
    Called =>
        /\ parse_call.raised = "none"
        /\ ParseFailure => parse_call = Outcome(ZeroShift, TRUE, "none")

\* the parser has been called on "abc-5pm" and warned
C12_Witness ==
    /\ Called
    /\ shift_str = Shift(Tok(NonNumeric, ""), Tok(5, "pm"))
    /\ parse_call.warning
\* shift_str is two tokens that are finite numbers: the text parses
TwoNumbers ==
    /\ shift_str.lit = "text"
    /\ Len(shift_str.toks) = 2
    /\ \A i \in 1..2 : shift_str.toks[i].v \notin {NonNumeric, NotFinite}

\* the hour of a token of value 1..12, as the 12-hour clock reads it
ClockHour(tok) ==
    IF tok.suf = "am" THEN tok.v % 12
    ELSE IF tok.suf = "pm" THEN (tok.v % 12) + 12
    ELSE IF tok.v < 5 THEN tok.v + 12
    ELSE tok.v

(***************************************************************************)
(* C13.  For every time token with numeric value V in 1..12, the parser's  *)
(* hour is V mod 12 when the token contains 'am', (V mod 12) + 12 when it  *)
(* contains 'pm', and with no suffix V + 12 when V < 5 and V when V >= 5.  *)
(* The hour is read off the returned start time, and off the returned end  *)
(* time, which is the end hour modulo 24.                                  *)
(***************************************************************************)
C13_TokenHour ==
    (Called /\ TwoNumbers) =>
        /\ shift_str.toks[1].v \in 1..12 =>
               parse_call.result.start_time = ClockHour(shift_str.toks[1])
        /\ shift_str.toks[2].v \in 1..12 =>
               parse_call.result.end_time = ClockHour(shift_str.toks[2])

\* the parser has been called on "12am-4": midnight to 4 in the afternoon
C13_Witness ==
    /\ Called
    /\ shift_str = Shift(Tok(12, "am"), Tok(4, ""))
    /\ parse_call.result = Parsed(0, 16, 16)
(***************************************************************************)
(* C14.  parse_shift_hours of the bare-number text "10-6" returns start    *)
(* 10:00:00, end 18:00:00 and duration 8 (10am-6pm), and of "2-10" returns *)
(* a 2pm-10pm shift of duration 8: start 14:00:00, end 22:00:00.           *)
(* The code returns (10:00:00, 06:00:00, 20) and (14:00:00, 10:00:00, 20): *)
(* a bare end of 5..11 stays a morning hour and is then taken as the next  *)
(* day.                                                                    *)
(***************************************************************************)
C14_BareNumbers ==
    Called =>
        /\ shift_str = Shift(Tok(10, ""), Tok(6, "")) =>
               parse_call.result = Parsed(10, 18, 8)
        /\ shift_str = Shift(Tok(2, ""), Tok(10, "")) =>
               parse_call.result = Parsed(14, 22, 8)
(***************************************************************************)
(* C15.  When the computed end hour is less than or equal to the start     *)
(* hour, parse_shift_hours treats the shift as overnight: duration =       *)
(* end + 24 - start and the stored end time is (end + 24) mod 24; so       *)
(* "11pm-7am" gives duration 8 with end 07:00:00, while "9am-5pm" gives    *)
(* start 09:00:00, end 17:00:00, duration 8 with no adjustment (an end     *)
(* hour after the start hour gives duration end - start).                  *)
(***************************************************************************)
C15_Overnight ==
    (Called /\ TwoNumbers) =>
        LET start_hour == parse_time(shift_str.toks[1])
            end_hour   == parse_time(shift_str.toks[2])
        IN  /\ end_hour <= start_hour =>
                   /\ parse_call.result.hours = end_hour + 24 - start_hour
                   /\ parse_call.result.end_time = (end_hour + 24) % 24
            /\ end_hour > start_hour =>
                   /\ parse_call.result.hours = end_hour - start_hour
                   /\ parse_call.result.end_time = end_hour % 24
            /\ shift_str = Shift(Tok(11, "pm"), Tok(7, "am")) =>
                   parse_call.result = Parsed(23, 7, 8)
            /\ shift_str = Shift(Tok(9, "am"), Tok(5, "pm")) =>
                   parse_call.result = Parsed(9, 17, 8)

\* the parser has been called on "11pm-7am"
C15_Witness ==
    /\ Called
    /\ shift_str = Shift(Tok(11, "pm"), Tok(7, "am"))
    /\ parse_call.result.hours = 8
    /\ parse_call.result.end_time = 7

(***************************************************************************)
(* C16.  Every result of parse_shift_hours, for every shift text with      *)
(* numeric time tokens of any value, is a well-formed ParsedShift:         *)
(* durationHours >= 0, and durationHours = 0 if and only if both start and *)
(* end time are null.                                                      *)
(* The code returns duration -12 for "50-2", and duration 0 with start     *)
(* 36:00:00 and end 12:00:00 for "36-12".                                  *)
(***************************************************************************)
C16_WellFormedParsedShift ==
    Called =>
        /\ parse_call.result.hours >= 0
        /\ parse_call.result.hours = 0 <=>
               (parse_call.result.start_time = None /\ parse_call.result.end_time = None)
(***************************************************************************)
(* Definitions used by the properties of a whole calculation               *)
(***************************************************************************)
\* the grid that the calculation reads in the current state
Grid == EditedSchedule(schedule_df, schedules, date_closed)

\* this step is a calculation
Run == runs' = runs + 1

\* this step is a calculation in which the employee of some row is not on
\* the employee list
UnknownEmployeeRun == Run /\ active' # active

\* the grid without the rows of the employees that are not on the list
KnownRows ==
    [e \in EmployeeIds |-> IF e \in active' THEN Grid[e] ELSE [d \in Days |-> EmptyText]]

(***************************************************************************)
(* C17.  When a schedule row references an employee id that is not in the  *)
(* employee list, calculate_labor_costs skips that row and still computes  *)
(* and stores the costs of every other employee: no exception leaves it,   *)
(* and its shift entries and daily totals are those of the other rows.     *)
(* The code raises IndexError at the row and stores no daily total.        *)
(***************************************************************************)
C17_UnknownEmployeeSkipped ==
    [][UnknownEmployeeRun =>
          LET others == AllSteps(employees, KnownRows, date_closed, 1)
              calls  == LaborCalls(DailyLabor(EmptyDaily, others, 1), labor_goal_pct, 1)
          IN  /\ error' = "none"
              /\ steps' = others
              /\ schedules' = SaveSteps(schedules, others, 1)
              /\ labor_calls' = calls
              /\ labor_costs' = SaveLabor(labor_costs, calls, 1)]_vars

(***************************************************************************)
(* C18.  Write-after-compute: in one calculate_labor_costs run no write to *)
(* storage happens before the allocation of every employee has completed,  *)
(* so a run that fails while processing an employee leaves the schedules   *)
(* and labor_costs tables exactly as they were before the run.             *)
(* The code saves each employee's shifts inside the loop over the rows:    *)
(* the rows before the failing one have been written.                      *)
(***************************************************************************)
C18_WriteAfterCompute ==
    [][(Run /\ error' # "none") =>
          (schedules' = schedules /\ labor_costs' = labor_costs)]_vars

\* no cell of the grid holds shift text: each is empty or the closed marker
EmptyWeek ==
    \A e \in EmployeeIds, d \in Days : Grid[e][d] \in {EmptyText, ClosedText}

OpenCells ==
    [e \in EmployeeIds |-> [d \in Days |-> IF date_closed[d] THEN EmptyText ELSE Grid[e][d]]]

(***************************************************************************)
(* C20.  Shift text on a closed day is ignored by calculate_labor_costs    *)
(* for every pay type: it adds nothing to the employee's weekly hours,     *)
(* working-day count, costs or shift entries (the shift entries are those  *)
(* of the same week with the closed days' cells empty), and the closed     *)
(* date gets no daily total.                                               *)
(***************************************************************************)
C20_ClosedDayIgnored ==
    Calculated =>
        /\ steps = AllSteps(employees, OpenCells, [d \in Days |-> FALSE], 1)
        /\ \A d \in Days :
               date_closed[d] => (StepsOn(d) = << >> /\ d \notin WrittenDates)

\* a week has been calculated in which an hourly and a salaried employee both
\* have a stored shift in the cell of a closed day
C20_Witness ==
    /\ Calculated
    /\ \E d \in Days :
          /\ date_closed[d]
          /\ \E e \in EmployeeIds :
                Hourly(e) /\ parse_shift_hours(Grid[e][d]).hours > 0
          /\ \E e \in EmployeeIds :
                ~Hourly(e) /\ parse_shift_hours(Grid[e][d]).hours > 0
(***************************************************************************)
(* C21.  For a salaried employee, every stored shift entry has             *)
(* overtime = false and the employee adds 0 to every day's overtime hours, *)
(* however many hours are worked in the week (including more than 40).     *)
(***************************************************************************)
C21_SalariedNoOvertime ==
    \A e \in EmployeeIds :
        ~Hourly(e) =>
            /\ \A r \in schedules : r.employee_id = e => ~r.overtime
            /\ \A i \in 1..Len(steps) :
                   steps[i].employee_id = e =>
                       (~steps[i].overtime /\ steps[i].ot_hours = 0 /\ steps[i].add_overtime = 0)

\* a salaried employee's week of more than 40 hours has been calculated and stored
C21_Witness ==
    /\ Calculated
    /\ \E e \in EmployeeIds :
          /\ ~Hourly(e)
          /\ HoursSum(StepsOf(e)) > 40
          /\ \E r \in schedules : r.employee_id = e /\ r.hours > 8
\* the shift entries of a calculation step that belong to employee e
NewStepsOf(e) == SelectSeq(steps', LAMBDA x : x.employee_id = e)

(***************************************************************************)
(* C22.  No cross-employee interaction: the shift cost entries (times,     *)
(* hours, cost, overtime flag) written for one employee depend only on     *)
(* that employee's own shift texts and pay data: in every calculation they *)
(* are the entries that the employee's own row and pay data yield,         *)
(* whatever the other rows hold.                                           *)
(* In the code the row of an employee that is not on the list raises, and  *)
(* the employees of the rows after it get no entry at all.                 *)
(***************************************************************************)
C22_NoCrossEmployeeInteraction ==
    [][Run =>
          \A e \in active' :
              NewStepsOf(e) = EmployeeSteps(e, employees[e], Grid[e], date_closed)]_vars
\* the regular budget left after the first k shift entries of employee e
BudgetAfter(e, k) == OvertimeThreshold - RegularSum(SubSeq(StepsOf(e), 1, k))

(***************************************************************************)
(* C23.  In the overtime allocation the remaining regular budget never     *)
(* goes below 0 and never increases, and once a shift has an overtime      *)
(* portion every later shift (in date order) of that employee is entirely  *)
(* overtime: the overtime flags of an employee's shifts form a suffix of   *)
(* the date-ordered week.                                                  *)
(***************************************************************************)
C23_BudgetMonotone ==
    Calculated =>
        \A e \in EmployeeIds :
            Hourly(e) =>
                LET ss == StepsOf(e)
                IN  /\ \A i, j \in 1..Len(ss) : i < j => ss[i].date < ss[j].date
                    /\ \A k \in 1..Len(ss) :
                           /\ BudgetAfter(e, k) >= 0
                           /\ BudgetAfter(e, k) <= BudgetAfter(e, k - 1)
                    /\ \A i, j \in 1..Len(ss) :
                           (i < j /\ ss[i].ot_hours > 0) =>
                               /\ ss[j].reg_hours = 0
                               /\ ss[j].ot_hours = ss[j].hours
                    /\ \A i, j \in 1..Len(ss) :
                           (i < j /\ ss[i].overtime) => ss[j].overtime

\* an hourly week has been calculated with a regular shift, then a shift split
\* between regular and overtime, then a shift that is all overtime
C23_Witness ==
    /\ Calculated
    /\ \E e \in EmployeeIds :
          /\ Hourly(e)
          /\ \E i, j, k \in 1..Len(StepsOf(e)) :
                /\ i < j /\ j < k
                /\ ~StepsOf(e)[i].overtime
                /\ StepsOf(e)[j].reg_hours > 0 /\ StepsOf(e)[j].ot_hours > 0
                /\ StepsOf(e)[k].reg_hours = 0 /\ StepsOf(e)[k].overtime
\* a malformed shift text: no '-', more than one '-', or a token that is not a
\* finite number
Malformed(text) ==
    /\ text.lit = "text"
    /\ \/ Len(text.toks) # 2
       \/ \E i \in 1..Len(text.toks) : text.toks[i].v \in {NonNumeric, NotFinite}

\* the grid with the malformed cells of the hourly employees emptied
WellFormedCells ==
    [e \in EmployeeIds |->
        [d \in Days |-> IF Hourly(e) /\ Malformed(Grid[e][d]) THEN EmptyText ELSE Grid[e][d]]]

(***************************************************************************)
(* C24.  A malformed shift text in one cell of an hourly employee's week   *)
(* is treated exactly like an empty cell by calculate_labor_costs: it adds *)
(* no hours, no cost and no shift entry, and all other shifts of that      *)
(* employee and of all other employees are costed as if the cell were      *)
(* empty: the shift entries and daily totals are those of the week with    *)
(* the cell emptied.                                                       *)
(* In the code a malformed cell that is the last text of a week of more    *)
(* than 40 hours changes the start and end time of every entry of that     *)
(* employee to None.                                                       *)
(***************************************************************************)
C24_MalformedLikeEmpty ==
    Calculated =>
        /\ \A e \in EmployeeIds, d \in Days :
               (Hourly(e) /\ Malformed(Grid[e][d])) =>
                   \A i \in 1..Len(steps) : ~(steps[i].employee_id = e /\ steps[i].date = d)
        /\ steps = AllSteps(employees, WellFormedCells, date_closed, 1)
        /\ daily_labor = DailyLabor(EmptyDaily, AllSteps(employees, WellFormedCells, date_closed, 1), 1)

(***************************************************************************)
(* C25.  Every shift cost entry written by calculate_labor_costs carries   *)
(* the start and end time parsed from that same (employee, date) shift     *)
(* text; this holds for hourly employees with overtime as well as without, *)
(* when the employee's shifts have different times on different days.      *)
(* In the code the overtime branch saves every shift of the week with the  *)
(* start and end time of the cell that the first pass parsed last.         *)
(***************************************************************************)
C25_EntryTimesOfOwnCell ==
    Calculated =>
        \A i \in 1..Len(steps) :
            LET own == parse_shift_hours(Grid[steps[i].employee_id][steps[i].date])
            IN  /\ steps[i].start_time = own.start_time
                /\ steps[i].end_time = own.end_time
                /\ \E r \in schedules :
                      /\ r.employee_id = steps[i].employee_id
                      /\ r.date = steps[i].date
                      /\ r.start_time = own.start_time
                      /\ r.end_time = own.end_time

\* a schedules row without its id
Entry(r) ==
    [employee_id |-> r.employee_id, date |-> r.date, start_time |-> r.start_time,
     end_time |-> r.end_time, hours |-> r.hours, cost |-> r.cost, overtime |-> r.overtime]

\* a labor_costs row without its id and its actual_sales
Total(r) ==
    [date |-> r.date, total_hours |-> r.total_hours, regular_hours |-> r.regular_hours,
     overtime_hours |-> r.overtime_hours, total_cost |-> r.total_cost,
     labor_goal_percentage |-> r.labor_goal_percentage, required_sales |-> r.required_sales]

(***************************************************************************)
(* C26.  After any sequence of calculate_labor_costs runs for the same     *)
(* week with possibly different schedules, the stored daily totals and     *)
(* shift cost entries for the week's dates equal those of the most recent  *)
(* run alone: a date or shift that had cost in an earlier run but has none *)
(* in the latest run no longer shows the earlier values.                   *)
(* The code only inserts and updates: the rows of an earlier run that the  *)
(* latest run does not write again stay in both tables.                    *)
(***************************************************************************)
C26_LatestRunOnly ==
    Calculated =>
        /\ {Entry(r) : r \in schedules} = {Entry(r) : r \in SaveSteps({}, steps, 1)}
        /\ {Total(r) : r \in labor_costs} = {Total(r) : r \in SaveLabor({}, labor_calls, 1)}

(***************************************************************************)
(* C27.  Re-running calculate_labor_costs for a week leaves the            *)
(* actual_sales value previously stored for each date of that week         *)
(* unchanged; only the computed fields of the daily total (hours, cost,    *)
(* goal percentage, required sales) are overwritten.                       *)
(* The code calls save_labor_cost without actual_sales, and its UPDATE     *)
(* then sets the column to NULL.                                           *)
(***************************************************************************)
C27_ActualSalesKept ==
    [][(Run /\ error' = "none") =>
          \A r \in labor_costs :
              \E q \in labor_costs' : q.id = r.id /\ q.actual_sales = r.actual_sales]_vars

(***************************************************************************)
(* C28.  save_schedule_to_db, applied to a schedule entry that already has *)
(* a computed cost and overtime flag, changes only its start time, end     *)
(* time and hours: the stored cost and overtime flag of every existing     *)
(* entry are unchanged by saving the schedule.                             *)
(* The code calls save_schedule without cost and overtime, and its UPDATE  *)
(* then sets them to NULL and 0.                                           *)
(***************************************************************************)
C28_SaveKeepsCost ==
    [][SaveSchedule =>
          \A r \in schedules :
              r.cost # None =>
                  \E q \in schedules' :
                      q.id = r.id /\ q.cost = r.cost /\ q.overtime = r.overtime]_vars

\* C29: after any save_schedule and save_labor_cost calls, two sessions'
\* interleaved existence checks and inserts included, schedules holds at
\* most one row per (employee_id, date) and labor_costs at most one row per
\* date.
C29_OneRowPerKey == OneRowPerShift(schedules) /\ OneRowPerDate(labor_costs)

\* the Schedule Summary of the calculation just completed
ShownSummary == SummaryData(daily_labor, labor_goal_pct, 1)

ShownMetrics == Metrics(SummaryDf(ShownSummary))

SummaryShown == Calculated /\ error = "none" /\ ShownSummary # << >>

\* C30: the weekly required sales shown by calculate_labor_costs are the sum
\* of the daily required sales, in the summary rows and as saved; for a
\* labor goal above 0 they are the weekly labor cost divided by
\* (goal / 100), and the projected labor percentage is the goal.
C30_WeeklyRequiredSales ==
    SummaryShown =>
        /\ ShownMetrics.total_required_sales = ColumnSum(ShownSummary, "required_sales", 1)
        /\ ShownMetrics.total_required_sales = ColumnSum(labor_calls, "required_sales", 1)
        /\ labor_goal_pct > 0 =>
               /\ ShownMetrics.total_required_sales * labor_goal_pct
                      = ShownMetrics.total_labor_cost * 100
               /\ ShownMetrics.weekly_labor_pct = Ratio(labor_goal_pct, 1)

\* a summary of several days, one of them with a third of a salary, under a
\* labor goal of 25
C30_Witness ==
    /\ SummaryShown
    /\ labor_goal_pct > 0
    /\ Len(ShownSummary) >= 3
    /\ \E i \in 1..Len(ShownSummary) : ShownSummary[i].labor_cost % CostUnit # 0

====
